---- MODULE Spec2Model ----
(***************************************************************************)
(* Fitness-tracker module homework.py: three workout variants (Running,    *)
(* SportsWalking, Swimming), their distance / speed / calorie formulas,    *)
(* the dispatch function read_package and the driver loop.                 *)
(*                                                                         *)
(* Python values are records [t, n, d]: t is the Python type ("int",       *)
(* "float", "str") or, for an expression that raised, the exception's      *)
(* name; n/d is the value of a number as a fraction in lowest terms.       *)
(* Floats are computed exactly (as rationals), so a result stands for the  *)
(* double nearest to it.                                                   *)
(***************************************************************************)
EXTENDS Integers, Sequences, FiniteSets, TLC

VARIABLES packages, i, pc, training, stdout, exc, returned, calls

vars == <<packages, i, pc, training, stdout, exc, returned, calls>>

(* ----------------------------- bounds ---------------------------------- *)
MaxPackages == 3
MaxArgs == 6
MaxCalls == 3

(* ------------------------- Python arithmetic --------------------------- *)
Abs(x) == IF x < 0 THEN -x ELSE x

RECURSIVE GCD(_, _)
GCD(a, b) == IF b = 0 THEN a ELSE GCD(b, a % b)

Val(type, num, den) ==
    LET s == IF den < 0 THEN -1 ELSE 1
        g == GCD(Abs(num), Abs(den))
    IN  [t |-> type, n |-> (s * num) \div g, d |-> (s * den) \div g]

IntV(k) == [t |-> "int", n |-> k, d |-> 1]
FloatV(num, den) == Val("float", num, den)
StrV == [t |-> "str", n |-> 0, d |-> 1]
Absent == [t |-> "absent", n |-> 0, d |-> 1]
Raise(name) == [t |-> name, n |-> 0, d |-> 1]

Exceptions == {"TypeError", "ZeroDivisionError", "NotImplementedError", "ValueError"}
IsNum(v) == v.t \in {"int", "float"}
IsExc(v) == v.t \in Exceptions
Positive(v) == IsNum(v) /\ v.n > 0
IsZero(v) == IsNum(v) /\ v.n = 0
NumT(a, b) == IF a.t = "int" /\ b.t = "int" THEN "int" ELSE "float"

\* a * b  (str * int is sequence repetition and gives a str)
Mul(a, b) ==
    IF IsExc(a) THEN a
    ELSE IF IsExc(b) THEN b
    ELSE IF IsNum(a) /\ IsNum(b) THEN Val(NumT(a, b), a.n * b.n, a.d * b.d)
    ELSE IF {a.t, b.t} = {"str", "int"} THEN StrV
    ELSE Raise("TypeError")

\* a / b
TrueDiv(a, b) ==
    IF IsExc(a) THEN a
    ELSE IF IsExc(b) THEN b
    ELSE IF ~(IsNum(a) /\ IsNum(b)) THEN Raise("TypeError")
    ELSE IF b.n = 0 THEN Raise("ZeroDivisionError")
    ELSE Val("float", a.n * b.d, a.d * b.n)

\* a // b
FloorDiv(a, b) ==
    IF IsExc(a) THEN a
    ELSE IF IsExc(b) THEN b
    ELSE IF ~(IsNum(a) /\ IsNum(b)) THEN Raise("TypeError")
    ELSE IF b.n = 0 THEN Raise("ZeroDivisionError")
    ELSE LET q == Val("float", a.n * b.d, a.d * b.n)
         IN  Val(NumT(a, b), q.n \div q.d, 1)

\* a + b  (str + str is concatenation)
Add(a, b) ==
    IF IsExc(a) THEN a
    ELSE IF IsExc(b) THEN b
    ELSE IF IsNum(a) /\ IsNum(b) THEN Val(NumT(a, b), a.n * b.d + b.n * a.d, a.d * b.d)
    ELSE IF a.t = "str" /\ b.t = "str" THEN StrV
    ELSE Raise("TypeError")

\* a - b
Sub(a, b) ==
    IF IsExc(a) THEN a
    ELSE IF IsExc(b) THEN b
    ELSE IF IsNum(a) /\ IsNum(b) THEN Val(NumT(a, b), a.n * b.d - b.n * a.d, a.d * b.d)
    ELSE Raise("TypeError")

\* a ** 2
Pow2(a) ==
    IF IsExc(a) THEN a
    ELSE IF IsNum(a) THEN Val(a.t, a.n * a.n, a.d * a.d)
    ELSE Raise("TypeError")

\* format(v, '.3f'): the thousandths of v, rounded half to even
Round3(v) ==
    LET x == v.n * 1000
        q == x \div v.d
        r == x % v.d
    IN  IF 2 * r < v.d THEN q
        ELSE IF 2 * r > v.d THEN q + 1
        ELSE IF q % 2 = 0 THEN q ELSE q + 1

(* --------------------------- class Training ---------------------------- *)
M_IN_KM == 1000
MIN_IN_H == 60
Training_LEN_STEP == FloatV(65, 100)
Swimming_LEN_STEP == FloatV(138, 100)

Running_CALORIES_AVG_SPEED_MULTIPLIER == 18
Running_CALORIES_AVG_SPEED_SHIFT == 20
SportsWalking_CALORIES_WEIGHT_MULTIPLIER == FloatV(35, 1000)
SportsWalking_CALORIES_AVG_SPEED_AND_WEIGHT_MULTIPLIER == FloatV(29, 1000)
Swimming_CALORIES_AVG_SPEED_SHIFT == FloatV(11, 10)
Swimming_CALORIES_WEIGHT_MULTIPLIER == 2

\* the attribute lookup self.LEN_STEP: Swimming overrides the base value
LEN_STEP(self) == IF self.cls = "Swimming" THEN Swimming_LEN_STEP ELSE Training_LEN_STEP

\* the name bound to no object
NoTraining ==
    [cls |-> "None", action |-> Absent, duration_h |-> Absent, weight_kg |-> Absent,
     height_m |-> Absent, length_pool_m |-> Absent, count_pool |-> Absent]

Training_init(cls, action, duration, weight) ==
    [NoTraining EXCEPT !.cls = cls, !.action = action,
                       !.duration_h = duration, !.weight_kg = weight]

SportsWalking_init(cls, action, duration, weight, height) ==
    [Training_init(cls, action, duration, weight) EXCEPT !.height_m = height]

Swimming_init(cls, action, duration, weight, length_pool, count_pool) ==
    [Training_init(cls, action, duration, weight) EXCEPT
        !.length_pool_m = length_pool, !.count_pool = count_pool]

get_distance(self) ==
    TrueDiv(Mul(self.action, LEN_STEP(self)), IntV(M_IN_KM))

Training_get_mean_speed(self) ==
    TrueDiv(get_distance(self), self.duration_h)

Swimming_get_mean_speed(self) ==
    TrueDiv(TrueDiv(Mul(self.length_pool_m, self.count_pool), IntV(M_IN_KM)),
            self.duration_h)

\* faulty variant: Swimming's override of get_mean_speed is missing
get_mean_speed_not_overridden(self) == Training_get_mean_speed(self)

\* method resolution: Swimming overrides get_mean_speed
get_mean_speed(self) ==
    IF self.cls = "Swimming" THEN Swimming_get_mean_speed(self)
    ELSE Training_get_mean_speed(self)

duration_min(self) == Mul(self.duration_h, IntV(MIN_IN_H))

Training_get_spent_calories(self) == Raise("NotImplementedError")

\* faulty variant: the duration is used in hours, not minutes
Running_get_spent_calories_in_hours(self) ==
    Mul(TrueDiv(Mul(Sub(Mul(IntV(Running_CALORIES_AVG_SPEED_MULTIPLIER),
                            get_mean_speed(self)),
                        IntV(Running_CALORIES_AVG_SPEED_SHIFT)),
                    self.weight_kg),
                IntV(M_IN_KM)),
        self.duration_h)

Running_get_spent_calories(self) ==
    Mul(TrueDiv(Mul(Sub(Mul(IntV(Running_CALORIES_AVG_SPEED_MULTIPLIER),
                            get_mean_speed(self)),
                        IntV(Running_CALORIES_AVG_SPEED_SHIFT)),
                    self.weight_kg),
                IntV(M_IN_KM)),
        duration_min(self))

\* faulty variant: true division (/) in place of floor division (//)
SportsWalking_get_spent_calories_true_division(self) ==
    Mul(Add(Mul(SportsWalking_CALORIES_WEIGHT_MULTIPLIER, self.weight_kg),
            Mul(Mul(TrueDiv(Pow2(get_mean_speed(self)), self.height_m),
                    SportsWalking_CALORIES_AVG_SPEED_AND_WEIGHT_MULTIPLIER),
                self.weight_kg)),
        duration_min(self))

SportsWalking_get_spent_calories(self) ==
    Mul(Add(Mul(SportsWalking_CALORIES_WEIGHT_MULTIPLIER, self.weight_kg),
            Mul(Mul(FloorDiv(Pow2(get_mean_speed(self)), self.height_m),
                    SportsWalking_CALORIES_AVG_SPEED_AND_WEIGHT_MULTIPLIER),
                self.weight_kg)),
        duration_min(self))

Swimming_get_spent_calories(self) ==
    Mul(Mul(Add(get_mean_speed(self), Swimming_CALORIES_AVG_SPEED_SHIFT),
            IntV(Swimming_CALORIES_WEIGHT_MULTIPLIER)),
        self.weight_kg)

\* method resolution: each variant overrides get_spent_calories
get_spent_calories(self) ==
    CASE self.cls = "Running" -> Running_get_spent_calories(self)
      [] self.cls = "SportsWalking" -> SportsWalking_get_spent_calories(self)
      [] self.cls = "Swimming" -> Swimming_get_spent_calories(self)
      [] OTHER -> Training_get_spent_calories(self)

(* --------------------------- InfoMessage ------------------------------- *)
NoMessage ==
    [training_type |-> "", duration |-> Absent, distance |-> Absent,
     speed |-> Absent, calories |-> Absent]

InfoMessage(training_type, duration, distance, speed, calories) ==
    [training_type |-> training_type, duration |-> duration, distance |-> distance,
     speed |-> speed, calories |-> calories]

\* the outcome of a call that returns an InfoMessage: raised names the
\* exception that left the call ("none" when it returned msg)
NoInfo == [raised |-> "absent", msg |-> NoMessage]

\* the arguments are evaluated left to right; the first exception leaves the call
show_training_info(self) ==
    LET distance == get_distance(self)
        speed == get_mean_speed(self)
        calories == get_spent_calories(self)
    IN  IF IsExc(distance) THEN [raised |-> distance.t, msg |-> NoMessage]
        ELSE IF IsExc(speed) THEN [raised |-> speed.t, msg |-> NoMessage]
        ELSE IF IsExc(calories) THEN [raised |-> calories.t, msg |-> NoMessage]
        ELSE [raised |-> "none",
              msg |-> InfoMessage(self.cls, self.duration_h, distance, speed, calories)]

\* the text of the line: the type label and the four numbers in thousandths
\* (three decimal places); the labels and units around them are fixed
NoLine == [raised |-> "absent", training_type |-> "", duration |-> 0, distance |-> 0,
           speed |-> 0, calories |-> 0]

get_message(m) ==
    IF \E v \in {m.duration, m.distance, m.speed, m.calories} : ~IsNum(v)
    THEN [NoLine EXCEPT !.raised = "ValueError"]
    ELSE [raised |-> "none", training_type |-> m.training_type,
          duration |-> Round3(m.duration), distance |-> Round3(m.distance),
          speed |-> Round3(m.speed), calories |-> Round3(m.calories)]

(* ----------------------------- dispatch -------------------------------- *)
\* faulty variant: the base class registered for "RUN"
TRAININGS_with_base == [SWM |-> "Swimming", RUN |-> "Training", WLK |-> "SportsWalking"]

TRAININGS == [SWM |-> "Swimming", RUN |-> "Running", WLK |-> "SportsWalking"]

\* the outcome of a call that returns a Training
Returned(obj) == [raised |-> "none", obj |-> obj]
Raised(name) == [raised |-> name, obj |-> NoTraining]

\* cls(*data): a call whose argument count differs from the constructor's
\* parameter count raises TypeError; the constructors check nothing else
Construct(cls, data) ==
    CASE cls \in {"Training", "Running"} ->
            IF Len(data) = 3
            THEN Returned(Training_init(cls, data[1], data[2], data[3]))
            ELSE Raised("TypeError")
      [] cls = "SportsWalking" ->
            IF Len(data) = 4
            THEN Returned(SportsWalking_init(cls, data[1], data[2], data[3], data[4]))
            ELSE Raised("TypeError")
      [] cls = "Swimming" ->
            IF Len(data) = 5
            THEN Returned(Swimming_init(cls, data[1], data[2], data[3], data[4], data[5]))
            ELSE Raised("TypeError")

\* TRAININGS[workout_type](*data)
Dispatch(workout_type, data) ==
    IF workout_type \in DOMAIN TRAININGS
    THEN Construct(TRAININGS[workout_type], data)
    ELSE Raised("KeyError")

\* faulty variant: an unknown code falls back to Running
read_package_with_default(workout_type, data) ==
    LET r == IF workout_type \in DOMAIN TRAININGS
             THEN Construct(TRAININGS[workout_type], data)
             ELSE Construct("Running", data)
    IN  IF r.raised \in {"KeyError", "TypeError"} THEN Raised("InputDataError") ELSE r

\* faulty variant: no except clause, the lookup and call errors propagate
read_package_unwrapped(workout_type, data) == Dispatch(workout_type, data)

\* faulty variant: a zero duration or height is rejected at dispatch
read_package_validating(workout_type, data) ==
    LET r == Dispatch(workout_type, data)
    IN  IF r.raised \in {"KeyError", "TypeError"} THEN Raised("InputDataError")
        ELSE IF IsZero(r.obj.duration_h) \/ IsZero(r.obj.height_m)
        THEN Raised("InputDataError")
        ELSE r

read_package(workout_type, data) ==
    LET r == Dispatch(workout_type, data)
    IN  IF r.raised \in {"KeyError", "TypeError"} THEN Raised("InputDataError") ELSE r

(* ------------------------------ inputs --------------------------------- *)
WorkoutTypes == {"SWM", "RUN", "WLK", "XYZ"}

\* the values tried at each position of the argument list
ArgValues(k) ==
    CASE k = 1 -> {IntV(720), IntV(9000), IntV(15000), StrV}
      [] k = 2 -> {IntV(0), IntV(1), FloatV(1, 2), StrV}
      [] k = 3 -> {IntV(75), IntV(80), StrV}
      [] k = 4 -> {IntV(0), IntV(5), IntV(25), IntV(180)}
      [] k = 5 -> {IntV(16), IntV(40)}
      [] OTHER -> {IntV(1)}

RECURSIVE DataLists(_)
DataLists(len) ==
    IF len = 0 THEN {<<>>}
    ELSE {Append(l, v) : l \in DataLists(len - 1), v \in ArgValues(len)}

Package(workout_type, data) == [workout_type |-> workout_type, data |-> data]

Packages ==
    {Package(w, d) : w \in WorkoutTypes, d \in UNION {DataLists(len) : len \in 2..MaxArgs}}

\* the three pairs of the module's own list and pairs that fail
DriverPackages ==
    {Package("SWM", <<IntV(720), IntV(1), IntV(80), IntV(25), IntV(40)>>),
     Package("RUN", <<IntV(15000), IntV(1), IntV(75)>>),
     Package("WLK", <<IntV(9000), IntV(1), IntV(75), IntV(180)>>),
     Package("XYZ", <<IntV(15000), IntV(1), IntV(75)>>),
     Package("RUN", <<IntV(15000), IntV(1)>>),
     Package("RUN", <<IntV(15000), IntV(0), IntV(75)>>),
     Package("WLK", <<IntV(9000), IntV(1), IntV(75), IntV(0)>>),
     Package("RUN", <<StrV, IntV(1), IntV(75)>>)}

RECURSIVE PackageLists(_)
PackageLists(len) ==
    IF len = 0 THEN {<<>>}
    ELSE {Append(l, p) : l \in PackageLists(len - 1), p \in DriverPackages}

(* --------------------------- the program ------------------------------- *)
NoReturned ==
    [get_distance |-> Absent, get_mean_speed |-> Absent, get_spent_calories |-> Absent,
     duration_min |-> Absent, show_training_info |-> NoInfo]

Start ==
    /\ i = 1
    /\ pc = "loop"
    /\ training = NoTraining
    /\ stdout = <<>>
    /\ exc = "none"
    /\ returned = NoReturned
    /\ calls = 0

\* the module run as a script over a list of (workout_type, data) pairs
Init ==
    /\ packages \in UNION {PackageLists(len) : len \in 0..MaxPackages}
    /\ Start

\* training = read_package(workout_type, data) for the next pair of the list
ReadPackage ==
    /\ pc = "loop"
    /\ i <= Len(packages)
    /\ LET r == read_package(packages[i].workout_type, packages[i].data)
       IN  IF r.raised = "none"
           THEN /\ training' = r.obj
                /\ pc' = "main"
                /\ exc' = exc
           ELSE /\ exc' = r.raised
                /\ pc' = "raised"
                /\ training' = training
    /\ UNCHANGED <<packages, i, stdout, returned, calls>>

\* faulty variant: a failure is swallowed and the loop goes on to the next pair
Main_skipping_failures ==
    /\ pc = "main"
    /\ LET info == show_training_info(training)
           line == get_message(info.msg)
       IN  IF info.raised # "none"
           THEN /\ i' = i + 1
                /\ pc' = "loop"
                /\ UNCHANGED <<stdout, exc>>
           ELSE /\ stdout' = Append(stdout, line)
                /\ i' = i + 1
                /\ pc' = "loop"
                /\ exc' = exc
    /\ UNCHANGED <<packages, training, returned, calls>>

\* main(training): print(training.show_training_info().get_message())
Main ==
    /\ pc = "main"
    /\ LET info == show_training_info(training)
           line == get_message(info.msg)
       IN  IF info.raised # "none"
           THEN /\ exc' = info.raised
                /\ pc' = "raised"
                /\ UNCHANGED <<stdout, i>>
           ELSE IF line.raised # "none"
           THEN /\ exc' = line.raised
                /\ pc' = "raised"
                /\ UNCHANGED <<stdout, i>>
           ELSE /\ stdout' = Append(stdout, line)
                /\ i' = i + 1
                /\ pc' = "loop"
                /\ exc' = exc
    /\ UNCHANGED <<packages, training, returned, calls>>

\* the list is exhausted
LoopExit ==
    /\ pc = "loop"
    /\ i > Len(packages)
    /\ pc' = "done"
    /\ UNCHANGED <<packages, i, training, stdout, exc, returned, calls>>

Next == ReadPackage \/ Main \/ LoopExit

Spec == Init /\ [][Next]_vars

(* ------------- one training object and calls of its methods ------------ *)
\* one pair is read, and the methods of the object it gives are then called
\* in any order; a caller keeps what each call returned or raised
InitCalls ==
    /\ packages \in {<<p>> : p \in Packages}
    /\ Start

CanCall == pc = "main" /\ calls < MaxCalls

Call_get_distance ==
    /\ CanCall
    /\ returned' = [returned EXCEPT !.get_distance = get_distance(training)]
    /\ calls' = calls + 1
    /\ UNCHANGED <<packages, i, pc, training, stdout, exc>>

Call_get_mean_speed ==
    /\ CanCall
    /\ returned' = [returned EXCEPT !.get_mean_speed = get_mean_speed(training)]
    /\ calls' = calls + 1
    /\ UNCHANGED <<packages, i, pc, training, stdout, exc>>

\* faulty variant: the duration is converted to minutes in place
Call_get_spent_calories_converting_in_place ==
    /\ pc = "main" /\ calls < MaxCalls
    /\ returned' = [returned EXCEPT !.get_spent_calories = get_spent_calories(training)]
    /\ training' = [training EXCEPT !.duration_h = duration_min(training)]
    /\ calls' = calls + 1
    /\ UNCHANGED <<packages, i, pc, stdout, exc>>

Call_get_spent_calories ==
    /\ CanCall
    /\ returned' = [returned EXCEPT !.get_spent_calories = get_spent_calories(training)]
    /\ calls' = calls + 1
    /\ UNCHANGED <<packages, i, pc, training, stdout, exc>>

Call_duration_min ==
    /\ CanCall
    /\ returned' = [returned EXCEPT !.duration_min = duration_min(training)]
    /\ calls' = calls + 1
    /\ UNCHANGED <<packages, i, pc, training, stdout, exc>>

Call_show_training_info ==
    /\ CanCall
    /\ returned' = [returned EXCEPT !.show_training_info = show_training_info(training)]
    /\ calls' = calls + 1
    /\ UNCHANGED <<packages, i, pc, training, stdout, exc>>

NextCalls ==
    \/ ReadPackage
    \/ Call_get_distance
    \/ Call_get_mean_speed
    \/ Call_get_spent_calories
    \/ Call_duration_min
    \/ Call_show_training_info

SpecCalls == InitCalls /\ [][NextCalls]_vars

(* ======================= properties of the program ===================== *)
\* the pair read_package was last called with, once it has been called
Handled == pc \in {"main", "raised"} /\ i <= Len(packages)
Cur == packages[i]

KnownTypes == {"SWM", "RUN", "WLK"}
ArityOf(w) == CASE w = "RUN" -> 3 [] w = "WLK" -> 4 [] w = "SWM" -> 5
VariantOf(w) ==
    CASE w = "RUN" -> "Running" [] w = "WLK" -> "SportsWalking" [] w = "SWM" -> "Swimming"
RightArity == Cur.workout_type \in KnownTypes /\ Len(Cur.data) = ArityOf(Cur.workout_type)

\* v is the number num/den
IsQ(v, num, den) == IsNum(v) /\ v.n * den = num * v.d
\* the numbers a and b are equal
EqNum(a, b) == IsNum(a) /\ IsNum(b) /\ a.n * b.d = b.n * a.d

(* C1: for every workout code outside {"SWM", "RUN", "WLK"} and any argument
   list, read_package raises InputDataError and returns no Training object
   (no default variant is built). *)
C1_UnknownCodeRaises ==
    (Handled /\ Cur.workout_type \notin KnownTypes) =>
        /\ pc = "raised"
        /\ exc = "InputDataError"
        /\ training = NoTraining

C1_Witness ==
    /\ Handled
    /\ Cur.workout_type = "XYZ"
    /\ Len(Cur.data) = 3
    /\ pc = "raised"
    /\ exc = "InputDataError"

(* C2: for every known code, an argument list whose length differs from the
   variant's constructor arity (RUN 3, WLK 4, SWM 5) makes read_package raise
   InputDataError, the error an unknown code raises; neither KeyError nor
   TypeError leaves read_package. *)
C2_WrongArityRaisesInputDataError ==
    /\ exc \notin {"KeyError", "TypeError"}
    /\ (Handled /\ Cur.workout_type \in KnownTypes
          /\ Len(Cur.data) # ArityOf(Cur.workout_type)) =>
        /\ pc = "raised"
        /\ exc = "InputDataError"
        /\ training = NoTraining

C2_Witness ==
    /\ Handled
    /\ Cur.workout_type = "SWM"
    /\ Len(Cur.data) = 4
    /\ pc = "raised"
    /\ exc = "InputDataError"

(* C3: for every known code, the right number of arguments with a non-numeric
   action, duration or weight fails at construction: read_package raises
   InputDataError instead of returning a Training object. *)
C3_WrongTypeFailsAtConstruction ==
    (Handled /\ RightArity /\ (\E k \in 1..3 : Cur.data[k].t = "str")) =>
        /\ pc = "raised"
        /\ exc = "InputDataError"
        /\ training = NoTraining

(* C4: for every code in {"SWM", "RUN", "WLK"} with a correct-arity argument
   list, read_package returns an instance of exactly the mapped variant, never
   a base Training; the record of show_training_info carries the variant's name
   and the input duration unchanged, and computing calories never reaches
   NotImplementedError. *)
C4_DispatchBuildsMappedVariant ==
    (Handled /\ RightArity) =>
        /\ pc = "main"
        /\ exc = "none"
        /\ training.cls = VariantOf(Cur.workout_type)
        /\ training.cls # "Training"
        /\ returned.get_spent_calories.t # "NotImplementedError"
        /\ returned.show_training_info.raised # "NotImplementedError"
        /\ returned.show_training_info.raised = "none" =>
              /\ returned.show_training_info.msg.training_type = VariantOf(Cur.workout_type)
              /\ returned.show_training_info.msg.duration = Cur.data[2]

C4_Witness ==
    /\ Handled
    /\ Cur.workout_type = "RUN"
    /\ training.cls = "Running"
    /\ returned.show_training_info.raised = "none"
    /\ returned.show_training_info.msg.training_type = "Running"
    /\ IsNum(returned.get_spent_calories)

\* the training object is the Running built from 15000 steps, 1 h, 75 kg
RunningExample ==
    /\ training.cls = "Running"
    /\ training.action = IntV(15000)
    /\ training.duration_h = IntV(1)
    /\ training.weight_kg = IntV(75)

(* C5 as stated: for the Running training built from action=15000, duration=1 h,
   weight=75 kg, show_training_info yields distance 9.75 km, speed 9.75 km/h and
   calories = (18 * 9.75 - 20) * 75 / 1000 * 60, approximately 738.0 (within
   one half of it). *)
C5_RunningExampleAbout738 ==
    (RunningExample /\ returned.show_training_info # NoInfo) =>
        LET m == returned.show_training_info.msg
        IN  /\ returned.show_training_info.raised = "none"
            /\ IsQ(m.distance, 975, 100)
            /\ IsQ(m.speed, 975, 100)
            /\ EqNum(m.calories, FloatV((18 * 975 - 20 * 100) * 75 * 60, 100 * 1000))
            /\ 2 * Abs(m.calories.n - 738 * m.calories.d) <= m.calories.d

(* C5 amended: for the Running training built from action=15000, duration=1 h,
   weight=75 kg, show_training_info yields distance 9.75 km, speed 9.75 km/h and
   calories = (18 * 9.75 - 20) * 75 / 1000 * 60, which is 699.75. *)
C5_RunningExampleIs699_75 ==
    (RunningExample /\ returned.show_training_info # NoInfo) =>
        LET m == returned.show_training_info.msg
        IN  /\ returned.show_training_info.raised = "none"
            /\ IsQ(m.distance, 975, 100)
            /\ IsQ(m.speed, 975, 100)
            /\ EqNum(m.calories, FloatV((18 * 975 - 20 * 100) * 75 * 60, 100 * 1000))
            /\ IsQ(m.calories, 69975, 100)

C5_Witness ==
    /\ RunningExample
    /\ returned.show_training_info.raised = "none"
    /\ IsQ(returned.show_training_info.msg.calories, 69975, 100)

\* a SportsWalking object with numbers in its fields, duration > 0, height > 0
WalkingCase ==
    /\ training.cls = "SportsWalking"
    /\ IsNum(training.action)
    /\ IsNum(training.weight_kg)
    /\ Positive(training.duration_h)
    /\ Positive(training.height_m)

\* speed = action * 0.65 / 1000 / duration, as a fraction
WalkSpeed == TrueDiv(Mul(training.action, FloatV(65, 100 * 1000)), training.duration_h)
\* floor(speed^2 / height), an integer
WalkFloor ==
    (WalkSpeed.n * WalkSpeed.n * training.height_m.d)
        \div (WalkSpeed.d * WalkSpeed.d * training.height_m.n)
\* 0.035 * weight * duration * 60
WalkBase == Mul(Mul(FloatV(35, 1000), training.weight_kg), Mul(training.duration_h, IntV(60)))
\* floor * 0.029 * weight * duration * 60
WalkSpeedTerm ==
    Mul(Mul(Mul(IntV(WalkFloor), FloatV(29, 1000)), training.weight_kg),
        Mul(training.duration_h, IntV(60)))

(* C6: for every SportsWalking training with duration > 0 and height > 0,
   calories = (0.035 * weight + floor(speed^2 / height) * 0.029 * weight)
   * duration * 60 with floor division; when speed^2 < height the speed term
   is 0 and calories = 0.035 * weight * duration_minutes; for action=9000,
   duration=1, weight=75, height=180 the record has distance 5.85, speed 5.85,
   calories 157.5. *)
C6_WalkingCaloriesFloorDivision ==
    WalkingCase =>
        /\ returned.get_mean_speed # Absent => EqNum(returned.get_mean_speed, WalkSpeed)
        /\ returned.get_spent_calories # Absent =>
              /\ EqNum(returned.get_spent_calories, Add(WalkBase, WalkSpeedTerm))
              /\ (WalkSpeed.n * WalkSpeed.n * training.height_m.d
                    < WalkSpeed.d * WalkSpeed.d * training.height_m.n) =>
                    /\ WalkFloor = 0
                    /\ EqNum(returned.get_spent_calories, WalkBase)
        /\ (/\ training.action = IntV(9000) /\ training.duration_h = IntV(1)
            /\ training.weight_kg = IntV(75) /\ training.height_m = IntV(180)
            /\ returned.show_training_info # NoInfo) =>
              /\ returned.show_training_info.raised = "none"
              /\ IsQ(returned.show_training_info.msg.distance, 585, 100)
              /\ IsQ(returned.show_training_info.msg.speed, 585, 100)
              /\ IsQ(returned.show_training_info.msg.calories, 1575, 10)

\* a walk whose speed^2 is not below the height: the floor is at least 1
C6_Witness ==
    /\ WalkingCase
    /\ WalkFloor >= 1
    /\ IsNum(returned.get_spent_calories)
    /\ ~EqNum(returned.get_spent_calories, WalkBase)

\* a Swimming object with numbers in the fields its speed and calories read
SwimmingCase ==
    /\ training.cls = "Swimming"
    /\ IsNum(training.weight_kg)
    /\ IsNum(training.length_pool_m)
    /\ IsNum(training.count_pool)
    /\ Positive(training.duration_h)

\* pool_length * pool_laps / 1000 / duration
SwimSpeed ==
    TrueDiv(TrueDiv(Mul(training.length_pool_m, training.count_pool), IntV(1000)),
            training.duration_h)

(* C7: for every Swimming training with duration > 0, mean speed =
   pool_length * pool_laps / 1000 / duration and calories = (speed + 1.1) * 2
   * weight, whatever the action count is, and the distance is action * 1.38 /
   1000, whatever the pool length and laps are; for action=720, duration=1,
   weight=80, pool_length=25, laps=40: speed 1.0, calories 336.0, distance
   0.9936. *)
C7_SwimmingSpeedFromPool ==
    SwimmingCase =>
        /\ returned.get_mean_speed # Absent => EqNum(returned.get_mean_speed, SwimSpeed)
        /\ returned.get_spent_calories # Absent =>
              EqNum(returned.get_spent_calories,
                    Mul(Mul(Add(SwimSpeed, FloatV(11, 10)), IntV(2)), training.weight_kg))
        /\ (returned.get_distance # Absent /\ IsNum(training.action)) =>
              IsQ(returned.get_distance, training.action.n * 138, training.action.d * 100000)
        /\ (/\ training.action = IntV(720) /\ training.duration_h = IntV(1)
            /\ training.weight_kg = IntV(80) /\ training.length_pool_m = IntV(25)
            /\ training.count_pool = IntV(40)
            /\ returned.show_training_info # NoInfo) =>
              /\ returned.show_training_info.raised = "none"
              /\ IsQ(returned.show_training_info.msg.speed, 1, 1)
              /\ IsQ(returned.show_training_info.msg.calories, 336, 1)
              /\ IsQ(returned.show_training_info.msg.distance, 9936, 10000)

\* the record of the example: its speed * duration is not its distance
C7_Witness ==
    /\ SwimmingCase
    /\ training.action = IntV(720)
    /\ training.length_pool_m = IntV(25)
    /\ training.count_pool = IntV(40)
    /\ returned.show_training_info.raised = "none"
    /\ ~EqNum(Mul(returned.show_training_info.msg.speed,
                  returned.show_training_info.msg.duration),
              returned.show_training_info.msg.distance)

\* an object built like the one in use, from the same (code, args), never called
Fresh == read_package(packages[1].workout_type, packages[1].data).obj

(* C8: get_distance, get_mean_speed, get_spent_calories and show_training_info
   (and duration_min) are pure: a call changes no field of the training object,
   a repeated call returns what the earlier call returned, whatever was called
   in between, and a call on the used object returns what the same call returns
   on an object freshly built from identical (code, args). *)
C8_MethodsArePure ==
    [][ /\ training # NoTraining => training' = training
        /\ returned.get_distance # Absent =>
              returned'.get_distance = returned.get_distance
        /\ returned.get_mean_speed # Absent =>
              returned'.get_mean_speed = returned.get_mean_speed
        /\ returned.get_spent_calories # Absent =>
              returned'.get_spent_calories = returned.get_spent_calories
        /\ returned.duration_min # Absent =>
              returned'.duration_min = returned.duration_min
        /\ returned.show_training_info # NoInfo =>
              returned'.show_training_info = returned.show_training_info
        /\ returned'.get_distance \in {Absent, get_distance(Fresh)}
        /\ returned'.get_mean_speed \in {Absent, get_mean_speed(Fresh)}
        /\ returned'.get_spent_calories \in {Absent, get_spent_calories(Fresh)}
        /\ returned'.duration_min \in {Absent, duration_min(Fresh)}
        /\ returned'.show_training_info \in {NoInfo, show_training_info(Fresh)}
      ]_vars

\* three calls, two of them of get_mean_speed, with get_spent_calories among them
C8_Witness ==
    /\ calls = 3
    /\ IsNum(returned.get_mean_speed)
    /\ IsNum(returned.get_spent_calories)
    /\ returned.get_distance = Absent
    /\ returned.duration_min = Absent
    /\ returned.show_training_info = NoInfo

\* a known code with the right number of arguments, all of them numbers, and a
\* zero duration or (for SportsWalking) a zero height
ZeroCase ==
    /\ Handled
    /\ RightArity
    /\ \A k \in 1..Len(Cur.data) : IsNum(Cur.data[k])
    /\ \/ IsZero(Cur.data[2])
       \/ Cur.workout_type = "WLK" /\ IsZero(Cur.data[4])

(* C9: zero duration (any variant) and zero height (SportsWalking) are not
   validated at dispatch: read_package returns a Training object without error,
   and the failure appears only when show_training_info computes the mean speed
   or the calories, as a ZeroDivisionError, not an InputDataError, with no
   record. *)
C9_ZeroNotValidatedAtDispatch ==
    ZeroCase =>
        /\ pc = "main"
        /\ exc = "none"
        /\ training.cls = VariantOf(Cur.workout_type)
        /\ returned.get_distance = Absent \/ IsNum(returned.get_distance)
        /\ IsZero(Cur.data[2]) =>
              returned.get_mean_speed \in {Absent, Raise("ZeroDivisionError")}
        /\ returned.get_spent_calories \in {Absent, Raise("ZeroDivisionError")}
        /\ returned.show_training_info \in
              {NoInfo, [raised |-> "ZeroDivisionError", msg |-> NoMessage]}

\* a walk of one hour with height 0: built, and show_training_info has raised
C9_Witness ==
    /\ ZeroCase
    /\ Cur.workout_type = "WLK"
    /\ Positive(Cur.data[2])
    /\ IsNum(returned.get_mean_speed)
    /\ returned.show_training_info = [raised |-> "ZeroDivisionError", msg |-> NoMessage]

\* read_package and show_training_info succeed on the pair p
Prints(p) ==
    LET r == read_package(p.workout_type, p.data)
    IN  /\ r.raised = "none"
        /\ show_training_info(r.obj).raised = "none"
\* the line the pair p prints
LineOf(p) ==
    get_message(show_training_info(read_package(p.workout_type, p.data).obj).msg)

\* in the state (ps, ix, p, out, e, tr) of the driver: the lines printed so far
\* are those of the pairs before pair ix, in list order, and the run has ended
\* at the first pair that fails or after the last pair
InOrderAt(ps, ix, p, out, e, tr) ==
    /\ ix \in 1..(Len(ps) + 1)
    /\ Len(out) = ix - 1
    /\ \A k \in 1..Len(out) : Prints(ps[k]) /\ out[k] = LineOf(ps[k])
    /\ p = "done" => ix = Len(ps) + 1
    /\ p = "raised" => ix <= Len(ps) /\ ~Prints(ps[ix]) /\ e # "none"
    /\ p = "main" => tr = read_package(ps[ix].workout_type, ps[ix].data).obj

InOrder == InOrderAt(packages, i, pc, stdout, exc, training)

(* C10: the driver processes the pairs strictly in list order, building each
   training and printing its line before reading the next pair: when every pair
   is valid it prints exactly one line per pair in input order, and when pair i
   fails it stops there with no recovery or retry, having printed exactly the
   lines of pairs 1..i-1 and none for pair i or any later pair. *)
C10_DriverInOrderStopsAtFailure ==
    [][ /\ InOrder
        /\ InOrderAt(packages', i', pc', stdout', exc', training')
        /\ pc \notin {"raised", "done"}
        /\ packages' = packages
        /\ \/ i' = i /\ stdout' = stdout
           \/ /\ pc = "main"
              /\ i' = i + 1
              /\ stdout' = Append(stdout, LineOf(packages[i]))
      ]_vars

\* pair 2 of three has failed: one line printed, none for pairs 2 and 3
C10_Witness ==
    /\ pc = "raised"
    /\ Len(packages) = 3
    /\ i = 2
    /\ Len(stdout) = 1
    /\ Prints(packages[3])

====
